---- MODULE Spec2Model ----
(***************************************************************************)
(* Model of the sparse fully connected layer notebook (sparse_net.ipynb):  *)
(* the forward op dense_np, the backward op dense_grad_np, the gradient    *)
(* wiring dense_grad, the py_func gradient registry, the layer lifecycle   *)
(* of SparseFullyConnected, the XOR label rule and the nn_model pattern    *)
(* composition.                                                            *)
(*                                                                         *)
(* Python arrays are TLA+ sequences: Python position i is sequence         *)
(* position i + 1.  Index pairs [r, c] are tuples <<r, c>>.  A numpy       *)
(* boolean-mask lookup x_val[(x_idx == [b, c]).all(axis=1)] yields an      *)
(* array with one element per matching row; adding it into a scalar slot   *)
(* (h_vals[i] += val * that) succeeds only when exactly one row matches,   *)
(* otherwise numpy raises ValueError ("setting an array element with a     *)
(* sequence"): such a call ends with status "error" and no output.         *)
(***************************************************************************)
EXTENDS Integers, Sequences, FiniteSets, TLC

\* ---------------------------------------------------------------- bounds
MaxBatch == 2
MaxOut == 2
MaxK == 2
NCols == 3
MaxRnd == 4
NSamples == 2
NFeat == 5
MaxLayerCalls == 3

\* small integer values for weights and inputs
ValSet == {-1, 2}

\* ---------------------------------------------------------------- numpy helpers
\* np.arange(n)
Arange(n) == [i \in 1..n |-> i - 1]

\* np.tile(s, k)
Tile(s, k) == [i \in 1..(Len(s) * k) |-> s[((i - 1) % Len(s)) + 1]]

\* a repeat that tiles instead
Repeat_tiles(s, k) == Tile(s, k)

\* np.repeat(s, k)
Repeat(s, k) == [i \in 1..(Len(s) * k) |-> s[((i - 1) \div k) + 1]]

\* np.transpose([a, b]) for two equal-length 1-d arrays
Transpose(a, b) == [i \in 1..Len(a) |-> <<a[i], b[i]>>]

\* rows of idx equal to key: (idx == key).all(axis=1).nonzero()
Matches(idx, key) == {i \in 1..Len(idx) : idx[i] = key}

RECURSIVE SumSeq(_)
SumSeq(s) == IF s = <<>> THEN 0 ELSE Head(s) + SumSeq(Tail(s))

RECURSIVE SetSum(_, _)
SetSum(S, f) ==
    IF S = {} THEN 0
    ELSE LET i == CHOOSE i \in S : TRUE IN f[i] + SetSum(S \ {i}, f)

\* v[mask]: its elements summed (the single element when exactly one row matches)
Lookup(idx, v, key) == SetSum(Matches(idx, key), v)

\* a lookup that lets an empty match count as zero
LookupOK_zero(idx, key) == Cardinality(Matches(idx, key)) <= 1

\* h[i] += val * v[mask] stores a scalar only for a one-element v[mask]
LookupOK(idx, key) == Cardinality(Matches(idx, key)) = 1

\* ---------------------------------------------------------------- dense_np
\* the loop "for bi in range(batch_size): for idx, val in zip(w_idx, w_val)"
\* flattened: pair <<bi, j>> with j the 1-based weight entry
FwdPairs(B, W) == [t \in 1..(B * W) |-> <<(t - 1) \div W, ((t - 1) % W) + 1>>]

\* the loop body h_vals[bi*n_neurons + idx[0]] += val * x_val[...] for each pair,
\* as <<1-based output position, added value>>
FwdContribs_unit(ps, wi, wv, xi, xv, n) ==
    [t \in 1..Len(ps) |->
        LET bi == ps[t][1]
            j == ps[t][2]
        IN <<bi * n + wi[j][1] + 1, wv[j] * Lookup(xi, xv, <<bi, wi[j][1]>>)>>]

FwdContribs(ps, wi, wv, xi, xv, n) ==
    [t \in 1..Len(ps) |->
        LET bi == ps[t][1]
            j == ps[t][2]
        IN <<bi * n + wi[j][1] + 1, wv[j] * Lookup(xi, xv, <<bi, wi[j][2]>>)>>]

\* the accumulation of the loop into h: each slot gets its contributions, in loop order
FwdAcc(h, ps, wi, wv, xi, xv, n) ==
    LET cs == FwdContribs(ps, wi, wv, xi, xv, n)
    IN [p \in DOMAIN h |->
          LET AtP(c) == c[1] = p
          IN h[p] + SumSeq([t \in 1..Len(SelectSeq(cs, AtP)) |-> SelectSeq(cs, AtP)[t][2]])]

\* some lookup of the loop matches no row or several rows: ValueError
FwdFails(wi, xi, B) ==
    \E bi \in 0..(B - 1), j \in 1..Len(wi) : ~LookupOK(xi, <<bi, wi[j][2]>>)

\* output indices listed output-unit-major instead of row-major
dense_np_colmajor(w_idx, w_val, w_shape, x_idx, x_val, x_shape) ==
    LET batch_size == x_shape[1]
        n_neurons == w_shape[1]
        h_shape == <<batch_size, n_neurons>>
        x == Arange(batch_size)
        y == Arange(n_neurons)
        h_idx == Transpose(Tile(x, Len(y)), Repeat(y, Len(x)))
        h_vals0 == [i \in 1..(batch_size * n_neurons) |-> 0]
    IN IF FwdFails(w_idx, x_idx, batch_size)
       THEN [status |-> "error", h_idx |-> <<>>, h_vals |-> <<>>, h_shape |-> <<>>]
       ELSE [status |-> "ok", h_idx |-> h_idx, h_shape |-> h_shape,
             h_vals |-> FwdAcc(h_vals0, FwdPairs(batch_size, Len(w_idx)),
                               w_idx, w_val, x_idx, x_val, n_neurons)]

dense_np(w_idx, w_val, w_shape, x_idx, x_val, x_shape) ==
    LET batch_size == x_shape[1]
        n_neurons == w_shape[1]
        h_shape == <<batch_size, n_neurons>>
        x == Arange(batch_size)
        y == Arange(n_neurons)
        h_idx == Transpose(Repeat(x, Len(y)), Tile(y, Len(x)))
        h_vals0 == [i \in 1..(batch_size * n_neurons) |-> 0]
    IN IF FwdFails(w_idx, x_idx, batch_size)
       THEN [status |-> "error", h_idx |-> <<>>, h_vals |-> <<>>, h_shape |-> <<>>]
       ELSE [status |-> "ok", h_idx |-> h_idx, h_shape |-> h_shape,
             h_vals |-> FwdAcc(h_vals0, FwdPairs(batch_size, Len(w_idx)),
                               w_idx, w_val, x_idx, x_val, n_neurons)]

\* ---------------------------------------------------------------- dense_grad_np
GradFails(wi, xi, B, n) ==
    \/ \E j \in 1..Len(wi), bi \in 0..(B - 1) : ~LookupOK(xi, <<bi, wi[j][2]>>)
    \/ \E k \in 1..Len(xi), ni \in 0..(n - 1) : ~LookupOK(wi, <<ni, xi[k][2]>>)

\* w_grad reading the upstream gradient of output unit 0 only
dense_grad_np_unit0(w_idx, w_val, w_shape, x_idx, x_val, x_shape, grad) ==
    LET batch_size == x_shape[1]
        n_neurons == w_shape[1]
        w_grad == [j \in 1..Len(w_val) |->
                     SumSeq([b \in 1..batch_size |->
                        grad[(b - 1) * n_neurons + 1]
                          * Lookup(x_idx, x_val, <<b - 1, w_idx[j][2]>>)])]
        x_grad == [k \in 1..Len(x_val) |->
                     SumSeq([m \in 1..n_neurons |->
                        grad[x_idx[k][1] * n_neurons + (m - 1) + 1]
                          * Lookup(w_idx, w_val, <<m - 1, x_idx[k][2]>>)])]
    IN IF GradFails(w_idx, x_idx, batch_size, n_neurons)
       THEN [status |-> "error", w_grad |-> <<>>, x_grad |-> <<>>]
       ELSE [status |-> "ok", w_grad |-> w_grad, x_grad |-> x_grad]

\* x_grad looking up the weight by the input's row instead of its column
dense_grad_np_row(w_idx, w_val, w_shape, x_idx, x_val, x_shape, grad) ==
    LET batch_size == x_shape[1]
        n_neurons == w_shape[1]
        w_grad == [j \in 1..Len(w_val) |->
                     SumSeq([b \in 1..batch_size |->
                        grad[(b - 1) * n_neurons + w_idx[j][1] + 1]
                          * Lookup(x_idx, x_val, <<b - 1, w_idx[j][2]>>)])]
        x_grad == [k \in 1..Len(x_val) |->
                     SumSeq([m \in 1..n_neurons |->
                        grad[x_idx[k][1] * n_neurons + (m - 1) + 1]
                          * Lookup(w_idx, w_val, <<m - 1, x_idx[k][1]>>)])]
    IN IF GradFails(w_idx, x_idx, batch_size, n_neurons)
       THEN [status |-> "error", w_grad |-> <<>>, x_grad |-> <<>>]
       ELSE [status |-> "ok", w_grad |-> w_grad, x_grad |-> x_grad]

\* every lookup of dense_grad_np's two loops finds exactly one entry
GradLookupsUniqueOf(wi, xi, B, n) == ~GradFails(wi, xi, B, n)

dense_grad_np(w_idx, w_val, w_shape, x_idx, x_val, x_shape, grad) ==
    LET batch_size == x_shape[1]
        n_neurons == w_shape[1]
        w_grad == [j \in 1..Len(w_val) |->
                     SumSeq([b \in 1..batch_size |->
                        grad[(b - 1) * n_neurons + w_idx[j][1] + 1]
                          * Lookup(x_idx, x_val, <<b - 1, w_idx[j][2]>>)])]
        x_grad == [k \in 1..Len(x_val) |->
                     SumSeq([m \in 1..n_neurons |->
                        grad[x_idx[k][1] * n_neurons + (m - 1) + 1]
                          * Lookup(w_idx, w_val, <<m - 1, x_idx[k][2]>>)])]
    IN IF GradFails(w_idx, x_idx, batch_size, n_neurons)
       THEN [status |-> "error", w_grad |-> <<>>, x_grad |-> <<>>]
       ELSE [status |-> "ok", w_grad |-> w_grad, x_grad |-> x_grad]

\* ---------------------------------------------------------------- layer pattern
\* SparseFullyConnected.build: np.transpose([np.repeat(x, len(y)), np.tile(y, len(x))])
\* with x = np.arange(n_units_out), y = in_indices
build_w_indices(n_units_out, in_indices) ==
    LET x == Arange(n_units_out)
        y == in_indices
    IN Transpose(Repeat(x, Len(y)), Tile(y, Len(x)))

\* indices of a batch of sparse samples (tf.data batch of SparseTensors):
\* row b's own column list, prefixed with b
RECURSIVE BatchIdx(_, _)
BatchIdx(rows, b) ==
    IF b > Len(rows) THEN <<>>
    ELSE [t \in 1..Len(rows[b]) |-> <<b - 1, rows[b][t]>>] \o BatchIdx(rows, b + 1)

\* ---------------------------------------------------------------- state
VARIABLES w_idx, w_val, w_shape, x_idx, x_val, x_shape, grad, fout, gout,
          g1, g3, dgout,
          registry, pf_calls, pf_status,
          built, w_indices, w_values, units, in_idx, nbuilds, ncalls, lastOp,
          feats, labels,
          draws, bsz, mpc, l1, l2, l3

opVars == <<w_idx, w_val, w_shape, x_idx, x_val, x_shape, grad, fout, gout>>
wireVars == <<g1, g3, dgout>>
regVars == <<registry, pf_calls, pf_status>>
layerVars == <<built, w_indices, w_values, units, in_idx, nbuilds, ncalls, lastOp>>
dataVars == <<feats, labels>>
modelVars == <<draws, bsz, mpc, l1, l2, l3>>
vars == <<opVars, wireVars, regVars, layerVars, dataVars, modelVars>>

NoOut == [status |-> "none"]

InitOpVars ==
    /\ w_idx = <<>> /\ w_val = <<>> /\ w_shape = <<0, 0>> /\ x_idx = <<>>
    /\ x_val = <<>> /\ x_shape = <<0, 0>> /\ grad = <<>>
    /\ fout = NoOut /\ gout = NoOut
InitWireVars == g1 = <<>> /\ g3 = <<>> /\ dgout = NoOut
InitRegVars == registry = {} /\ pf_calls = 0 /\ pf_status = "ok"
InitLayerVars ==
    /\ built = FALSE /\ w_indices = <<>> /\ w_values = <<>> /\ units = 0
    /\ in_idx = <<>> /\ nbuilds = 0 /\ ncalls = 0 /\ lastOp = "none"
InitDataVars == feats = <<>> /\ labels = <<>>
InitModelVars ==
    /\ draws = <<>> /\ bsz = 0 /\ mpc = "idle"
    /\ l1 = NoOut /\ l2 = NoOut /\ l3 = NoOut

\* ---------------------------------------------------------------- sparse ops spec
DistinctSeqs ==
    {s \in UNION {[1..k -> 0..(NCols - 1)] : k \in 1..MaxK} :
        \A i, j \in DOMAIN s : i # j => s[i] # s[j]}

Reverse(s) == [i \in 1..Len(s) |-> s[Len(s) + 1 - i]]

\* per-sample column lists near the layer's pattern ii: ii itself, ii with its
\* first or last column dropped, reversed, or with a column appended
RowSeqs(ii) ==
    {ii, Tail(ii), SubSeq(ii, 1, Len(ii) - 1), Reverse(ii)}
        \cup {Append(ii, c) : c \in 0..(NCols - 1)}

Ramp(m) == [i \in 1..m |-> i]

\* value vectors: a constant one, an increasing ramp, an alternating-sign ramp
SeedVecs(m) ==
    {[i \in 1..m |-> 2], Ramp(m), [i \in 1..m |-> IF i % 2 = 0 THEN i ELSE -i]}

InitOps ==
    /\ \E b \in 1..MaxBatch, n \in 1..MaxOut, ii \in DistinctSeqs :
        /\ w_idx = build_w_indices(n, ii)
        /\ w_shape = <<n, NCols>>
        /\ x_shape = <<b, NCols>>
        /\ \/ /\ x_idx = BatchIdx([r \in 1..b |-> ii], 1)
              /\ w_val \in SeedVecs(n * Len(ii))
              /\ x_val \in SeedVecs(b * Len(ii))
              /\ grad \in SeedVecs(b * n)
           \/ \E rows \in [1..b -> RowSeqs(ii)] :
              /\ rows # [r \in 1..b |-> ii]
              /\ x_idx = BatchIdx(rows, 1)
              /\ w_val = Ramp(n * Len(ii))
              /\ x_val = Ramp(Len(BatchIdx(rows, 1)))
              /\ grad = [i \in 1..(b * n) |-> 1]
    /\ fout = NoOut /\ gout = NoOut
    /\ InitWireVars /\ InitRegVars /\ InitLayerVars /\ InitDataVars /\ InitModelVars

DenseNpStep ==
    /\ fout = NoOut
    /\ fout' = dense_np(w_idx, w_val, w_shape, x_idx, x_val, x_shape)
    /\ UNCHANGED <<w_idx, w_val, w_shape, x_idx, x_val, x_shape, grad, gout>>
    /\ UNCHANGED <<wireVars, regVars, layerVars, dataVars, modelVars>>

DenseGradNpStep ==
    /\ gout = NoOut
    /\ gout' = dense_grad_np(w_idx, w_val, w_shape, x_idx, x_val, x_shape, grad)
    /\ UNCHANGED <<w_idx, w_val, w_shape, x_idx, x_val, x_shape, grad, fout>>
    /\ UNCHANGED <<wireVars, regVars, layerVars, dataVars, modelVars>>

NextOps == DenseNpStep \/ DenseGradNpStep

SpecOps == InitOps /\ [][NextOps]_vars

\* ---------------------------------------------------------------- sparse ops claims
NB == x_shape[1]
NO == w_shape[1]
\* the layer's column pattern read back from the weight indices
Pattern == [t \in 1..(Len(w_idx) \div NO) |-> w_idx[t][2]]

\* weights are the full cross product of units x pattern (distinct columns)
\* and every batch row's input indices are exactly the pattern, in order
MatchedInput ==
    /\ Len(Pattern) > 0
    /\ \A i, j \in DOMAIN Pattern : i # j => Pattern[i] # Pattern[j]
    /\ w_idx = build_w_indices(NO, Pattern)
    /\ x_idx = BatchIdx([r \in 1..NB |-> Pattern], 1)

\* dense matrices rebuilt from the sparse triples (absent entries are zero)
DW(o, c) == SetSum({j \in 1..Len(w_idx) : w_idx[j] = <<o, c>>}, w_val)
DX(b, c) == SetSum({k \in 1..Len(x_idx) : x_idx[k] = <<b, c>>}, x_val)

\* C1: with matching patterns, dense_np's values are the dense product W X^T:
\* h_vals[b*n + o] = sum over c in in_indices of W[o, c] * X[b, c].
C1_DenseMatMul ==
    (fout # NoOut /\ MatchedInput) =>
        /\ fout.status = "ok"
        /\ \A b \in 0..(NB - 1), o \in 0..(NO - 1) :
              fout.h_vals[b * NO + o + 1]
                = SumSeq([t \in 1..Len(Pattern) |-> DW(o, Pattern[t]) * DX(b, Pattern[t])])

C1_Witness ==
    fout # NoOut /\ MatchedInput /\ NB = 2 /\ NO = 2 /\ Len(Pattern) = 2

\* some weight entry (o, c) and batch row b with (b, c) absent from x_idx
MissingEntry ==
    \E b \in 0..(NB - 1), j \in 1..Len(w_idx) : Matches(x_idx, <<b, w_idx[j][2]>>) = {}

\* C2 (as stated): a missing (b, in_col) entry is a silent zero, dense_np does not raise.
C2_MissingIsZero ==
    (fout # NoOut /\ MissingEntry) => fout.status = "ok"

\* C2 (amended): a missing (b, in_col) entry makes dense_np raise (no output).
C2_MissingRaises ==
    (fout # NoOut /\ MissingEntry) => fout.status = "error"

C2_Witness == fout # NoOut /\ MissingEntry /\ NB = 2

\* C3: whenever dense_np returns, h_shape = [batch_size, n_units_out], h_idx lists
\* [i div n, i mod n] for i < batch_size*n_units_out, and h_vals has its length.
C3_OutputStructure ==
    (fout # NoOut /\ fout.status = "ok") =>
        /\ fout.h_shape = <<NB, NO>>
        /\ Len(fout.h_idx) = NB * NO
        /\ Len(fout.h_vals) = Len(fout.h_idx)
        /\ \A i \in 0..(NB * NO - 1) : fout.h_idx[i + 1] = <<i \div NO, i % NO>>

C3_Witness ==
    fout # NoOut /\ fout.status = "ok" /\ NB = 2 /\ NO = 2 /\ ~MatchedInput

\* the chain-rule values of C4, absent entries counting as zero
WGradSpec(j) ==
    SumSeq([b \in 1..NB |-> grad[(b - 1) * NO + w_idx[j][1] + 1] * DX(b - 1, w_idx[j][2])])
XGradSpec(k) ==
    SumSeq([m \in 1..NO |-> grad[x_idx[k][1] * NO + m] * DW(m - 1, x_idx[k][2])])

GradFormulas ==
    /\ Len(gout.w_grad) = Len(w_val)
    /\ Len(gout.x_grad) = Len(x_val)
    /\ \A j \in 1..Len(w_val) : gout.w_grad[j] = WGradSpec(j)
    /\ \A k \in 1..Len(x_val) : gout.x_grad[k] = XGradSpec(k)

\* every lookup of dense_grad_np's two loops finds exactly one entry
GradLookupsUnique ==
    /\ \A j \in 1..Len(w_idx), b \in 0..(NB - 1) :
          Cardinality(Matches(x_idx, <<b, w_idx[j][2]>>)) = 1
    /\ \A k \in 1..Len(x_idx), o \in 0..(NO - 1) :
          Cardinality(Matches(w_idx, <<o, x_idx[k][2]>>)) = 1

\* C4 (as stated): dense_grad_np returns the chain-rule gradients, absent entries adding zero.
C4_ChainRule ==
    gout # NoOut => (gout.status = "ok" /\ GradFormulas)

\* C4 (amended): when every lookup finds exactly one entry, dense_grad_np returns the
\* chain-rule gradients with matching lengths; otherwise it raises (no output).
C4_ChainRuleUnique ==
    gout # NoOut =>
        /\ GradLookupsUnique => (gout.status = "ok" /\ GradFormulas)
        /\ ~GradLookupsUnique => gout.status = "error"

C4_Witness == gout # NoOut /\ gout.status = "ok" /\ NB = 2 /\ NO = 2 /\ Len(Pattern) = 2

\* sum_i grad[i] * h_vals[i] of dense_np's output at weight/input values wv, xv
Objective(wv, xv) ==
    LET h == dense_np(w_idx, wv, w_shape, x_idx, xv, x_shape).h_vals
    IN SumSeq([i \in 1..Len(h) |-> grad[i] * h[i]])

\* the hand-computed example of the spec
ExWIdx == <<<<0, 0>>, <<0, 1>>>>
ExXIdx == <<<<0, 0>>, <<0, 1>>>>
ExampleHolds ==
    /\ dense_np(ExWIdx, <<2, 3>>, <<1, 2>>, ExXIdx, <<5, 7>>, <<1, 2>>).h_vals = <<31>>
    /\ dense_grad_np(ExWIdx, <<2, 3>>, <<1, 2>>, ExXIdx, <<5, 7>>, <<1, 2>>, <<1>>).w_grad = <<5, 7>>
    /\ dense_grad_np(ExWIdx, <<2, 3>>, <<1, 2>>, ExXIdx, <<5, 7>>, <<1, 2>>, <<1>>).x_grad = <<2, 3>>

\* C5: with matching patterns each gradient entry is the exact change of
\* sum_i grad[i]*h_vals[i] when that weight or input value goes up by 1.
C5_GradientCheck ==
    /\ ExampleHolds
    /\ (gout # NoOut /\ MatchedInput) =>
          LET base == Objective(w_val, x_val)
          IN /\ gout.status = "ok"
             /\ \A j \in 1..Len(w_val) :
                   gout.w_grad[j] = Objective([w_val EXCEPT ![j] = @ + 1], x_val) - base
             /\ \A k \in 1..Len(x_val) :
                   gout.x_grad[k] = Objective(w_val, [x_val EXCEPT ![k] = @ + 1]) - base

C5_Witness == gout # NoOut /\ MatchedInput /\ NB = 2 /\ NO = 2 /\ Len(Pattern) = 2

\* ---------------------------------------------------------------- py_func registry
\* 'PyFuncGrad' + str(np.random.randint(0, 1E+8)), the range cut to MaxRnd
GradName(r) == <<"PyFuncGrad", r>>

\* py_func: tf.RegisterGradient(rnd_name)(grad) raises KeyError for a name
\* already in the process-wide registry; otherwise the name is added
RegisterPyFuncGrad ==
    /\ \E r \in 0..(MaxRnd - 1) :
        IF GradName(r) \in registry
        THEN /\ pf_status' = "error"
             /\ UNCHANGED registry
        ELSE /\ registry' = registry \cup {GradName(r)}
             /\ UNCHANGED pf_status
    /\ pf_calls' = pf_calls + 1

\* ---------------------------------------------------------------- dense_grad wiring
None == "None"

\* dense_grad with the backward op fed the gradient of the index output
dense_grad_grad1(op, grad1, grad2, grad3) ==
    LET r == dense_grad_np(op[1], op[2], op[3], op[4], op[5], op[6], grad1)
    IN <<None, r.w_grad, None, None, r.x_grad, None>>

\* dense_grad(op, grad1, grad2, grad3): op = the six inputs of the forward py_func
dense_grad(op, grad1, grad2, grad3) ==
    LET r == dense_grad_np(op[1], op[2], op[3], op[4], op[5], op[6], grad2)
    IN <<None, r.w_grad, None, None, r.x_grad, None>>

OpInputs == <<w_idx, w_val, w_shape, x_idx, x_val, x_shape>>

\* upstream gradients of the index output (length batch*n) and of the shape output
G1Choices(m) == {[i \in 1..m |-> v] : v \in ValSet} \cup {Ramp(m)}
G3Choices == {<<v, 1>> : v \in ValSet}

InitWire ==
    /\ \E b \in 1..MaxBatch, n \in 1..MaxOut, ii \in DistinctSeqs :
        /\ w_idx = build_w_indices(n, ii)
        /\ w_shape = <<n, NCols>>
        /\ x_shape = <<b, NCols>>
        /\ x_idx = BatchIdx([r \in 1..b |-> ii], 1)
        /\ w_val = Ramp(n * Len(ii))
        /\ x_val = [i \in 1..(b * Len(ii)) |-> 3 - i]
        /\ grad \in SeedVecs(b * n)
        /\ g1 \in G1Choices(b * n)
        /\ g3 \in G3Choices
    /\ fout = NoOut /\ gout = NoOut /\ dgout = NoOut
    /\ InitRegVars /\ InitLayerVars /\ InitDataVars /\ InitModelVars

DenseGradStep ==
    /\ dgout = NoOut
    /\ dgout' = dense_grad(OpInputs, g1, grad, g3)
    /\ UNCHANGED <<opVars, g1, g3, regVars, layerVars, dataVars, modelVars>>

SpecWire == InitWire /\ [][DenseGradStep]_vars

\* C6: dense_grad's 6-tuple carries gradients only at positions 1 (w_val) and 4
\* (x_val), None elsewhere, and they depend on the values gradient grad2 only.
C6_GradWiring ==
    dgout # NoOut =>
        /\ dgout[1] = None /\ dgout[3] = None /\ dgout[4] = None /\ dgout[6] = None
        /\ Len(dgout[2]) = Len(w_val) /\ Len(dgout[5]) = Len(x_val)
        /\ \A a \in G1Choices(NB * NO), c \in G3Choices :
              dense_grad(OpInputs, a, grad, c) = dgout

C6_Witness == dgout # NoOut /\ NB = 2 /\ NO = 2 /\ g1 # grad

\* C7 (as stated): every py_func call (one per layer invocation) registers a fresh
\* name, no call fails, and after n calls the registry holds n entries.
C7_FreshNames == pf_status = "ok" /\ Cardinality(registry) = pf_calls

C7_Witness == pf_status = "error"

\* ---------------------------------------------------------------- layer lifecycle
\* in_indices of a layer: column lists, repeats allowed (layer1's random draws)
LayerPatterns == UNION {[1..k -> 0..(NCols - 1)] : k \in 1..MaxK}

InitLayer ==
    /\ InitOpVars /\ InitWireVars /\ InitRegVars /\ InitDataVars /\ InitModelVars
    /\ units \in 1..MaxOut
    /\ in_idx \in LayerPatterns
    /\ built = FALSE /\ w_indices = <<>> /\ w_values = <<>>
    /\ nbuilds = 0 /\ ncalls = 0 /\ lastOp = "none"

\* a layer invocation that builds on every call
LayerCall_rebuild ==
    /\ pf_status = "ok"
    /\ ncalls < MaxLayerCalls
    /\ built' = TRUE
    /\ nbuilds' = nbuilds + 1
    /\ w_values' \in SeedVecs(units * Len(in_idx))
    /\ w_indices' = build_w_indices(units, in_idx)
    /\ ncalls' = ncalls + 1
    /\ lastOp' = "call"
    /\ RegisterPyFuncGrad
    /\ UNCHANGED <<units, in_idx>>
    /\ UNCHANGED <<opVars, wireVars, dataVars, modelVars>>

\* Layer.__call__: build(input_shape) when not built (allocate the Glorot-initialised
\* value vector W, derive w_indices), then call(): dense_op -> py_func registers a
\* fresh gradient name, or raises KeyError (after the build) on a repeated one
LayerCall ==
    /\ pf_status = "ok"
    /\ ncalls < MaxLayerCalls
    /\ IF ~built
       THEN /\ built' = TRUE
            /\ nbuilds' = nbuilds + 1
            /\ w_values' \in SeedVecs(units * Len(in_idx))
            /\ w_indices' = build_w_indices(units, in_idx)
       ELSE UNCHANGED <<built, nbuilds, w_values, w_indices>>
    /\ ncalls' = ncalls + 1
    /\ lastOp' = "call"
    /\ RegisterPyFuncGrad
    /\ UNCHANGED <<units, in_idx>>
    /\ UNCHANGED <<opVars, wireVars, dataVars, modelVars>>

\* the optimizer (AdamOptimizer.minimize) updating the trainable values
OptimizerStep ==
    /\ pf_status = "ok"
    /\ built
    /\ \E nv \in SeedVecs(Len(w_values)) : w_values' = nv
    /\ lastOp' = "opt"
    /\ UNCHANGED <<built, w_indices, units, in_idx, nbuilds, ncalls>>
    /\ UNCHANGED <<opVars, wireVars, regVars, dataVars, modelVars>>

NextLayer == LayerCall \/ OptimizerStep

SpecLayer == InitLayer /\ [][NextLayer]_vars

LayerInv ==
    /\ nbuilds <= 1
    /\ built <=> nbuilds = 1
    /\ built <=> ncalls >= 1
    /\ built =>
         /\ Len(w_indices) = units * Len(in_idx)
         /\ Len(w_values) = Len(w_indices)
         /\ \A t \in 1..Len(w_indices) :
               w_indices[t] = <<(t - 1) \div Len(in_idx), in_idx[((t - 1) % Len(in_idx)) + 1]>>

\* C8: the layer is built exactly once, on its first invocation; afterwards
\* w_indices is the row-major cross product arange(n_units_out) x in_indices of
\* the value vector's length, never changes, and an invocation never resets values.
C8_BuildOnce ==
    /\ []LayerInv
    /\ [][built => (built' /\ w_indices' = w_indices)]_vars
    /\ [][(built /\ lastOp' = "call") => w_values' = w_values]_vars

C8_Witness == built /\ ncalls = 2 /\ lastOp = "call" /\ units = 2 /\ Len(in_idx) = 2

\* ---------------------------------------------------------------- XOR labels
\* values[:, :4] = np.random.rand(N, 4)*2 - 1, in [-1, 1): here in halves, -2..1 = -1..0.5
FeatVals == -2..1

\* a label rule testing <= 0 instead of < 0
label_rule_le(v0, v1) == IF (v0 <= 0) # (v1 <= 0) THEN 1 ELSE 0

\* labels = ((values[:,0] < 0) != (values[:, 1] < 0)).astype(np.int32)
label_rule(v0, v1) == IF (v0 < 0) # (v1 < 0) THEN 1 ELSE 0

InitData ==
    /\ InitOpVars /\ InitWireVars /\ InitRegVars /\ InitLayerVars /\ InitModelVars
    /\ feats \in [1..NSamples -> FeatVals \X FeatVals]
    /\ labels = <<>>

MakeLabels ==
    /\ labels = <<>>
    /\ labels' = [i \in 1..NSamples |-> label_rule(feats[i][1], feats[i][2])]
    /\ UNCHANGED <<feats, opVars, wireVars, regVars, layerVars, modelVars>>

SpecData == InitData /\ [][MakeLabels]_vars

\* C9: a sample's label is 1 exactly when exactly one of its first two feature
\* values is negative, else 0.
C9_XorLabel ==
    labels # <<>> =>
        \A i \in 1..NSamples :
            /\ labels[i] \in {0, 1}
            /\ (labels[i] = 1 <=> ((feats[i][1] < 0 /\ ~(feats[i][2] < 0))
                                  \/ (~(feats[i][1] < 0) /\ feats[i][2] < 0)))

C9_Witness ==
    labels # <<>> /\ labels[1] = 1 /\ labels[2] = 0 /\ feats[1][2] = 0 /\ feats[2][1] = 0

\* ---------------------------------------------------------------- nn_model
\* index = np.ones((5, 1)); index[:, 0] = np.random.randint(0, D, 5)
NDraws == 5
\* sparsefc(in_data, 10, D, in_indices, tf.nn.relu)
L1Units == 10
\* in_indices = np.arange(10)
L2InWidth == 10
\* sparsefc(fc1, 10, 10, in_indices, tf.nn.relu)
L2Units == 10
\* sparsefc(fc2, 2, 10, in_indices, tf.nn.relu, to_dense=True)
L3Units == 2

Max(S) == CHOOSE m \in S : \A k \in S : k <= m
Min(S) == CHOOSE m \in S : \A k \in S : m <= k

\* rows matched by the forward op's lookups x_val[(x_idx == [bi, idx[1]])]
FwdCounts(wi, xi, B) ==
    {Cardinality(Matches(xi, <<bi, wi[j][2]>>)) : bi \in 0..(B - 1), j \in 1..Len(wi)}

\* one layer's call(): weights from build, dense_np on the incoming indices
\* (values are irrelevant to the structure and set to 1)
LayerRun(n_units, in_indices, width, xi, B) ==
    LET wi == build_w_indices(n_units, in_indices)
        out == dense_np(wi, [t \in 1..Len(wi) |-> 1], <<n_units, width>>,
                        xi, [t \in 1..Len(xi) |-> 1], <<B, width>>)
    IN [status |-> out.status, h_idx |-> out.h_idx,
        maxcount |-> Max(FwdCounts(wi, xi, B)), mincount |-> Min(FwdCounts(wi, xi, B)),
        gradok |-> GradLookupsUniqueOf(wi, xi, B, n_units)]

InitModel ==
    /\ InitOpVars /\ InitWireVars /\ InitRegVars /\ InitLayerVars /\ InitDataVars
    /\ draws \in [1..NDraws -> 0..(NFeat - 1)]
    /\ bsz \in 1..MaxBatch
    /\ mpc = "idle" /\ l1 = NoOut /\ l2 = NoOut /\ l3 = NoOut

\* graph construction: each sparsefc(...) -> layer.apply -> call() -> dense_op ->
\* py_func registers a gradient name (KeyError on a repeated one stops the program)
\* fc1 = sparsefc(in_data, 10, D, index.reshape(-1), relu)
Fc1 ==
    /\ mpc = "idle"
    /\ RegisterPyFuncGrad
    /\ mpc' = "fc1"
    /\ UNCHANGED <<draws, bsz, l1, l2, l3, opVars, wireVars, layerVars, dataVars>>

\* fc2 = sparsefc(fc1, 10, 10, np.arange(10), relu)
Fc2 ==
    /\ mpc = "fc1" /\ pf_status = "ok"
    /\ RegisterPyFuncGrad
    /\ mpc' = "fc2"
    /\ UNCHANGED <<draws, bsz, l1, l2, l3, opVars, wireVars, layerVars, dataVars>>

\* fc3 = sparsefc(fc2, 2, 10, np.arange(10), relu, to_dense=True)
Fc3 ==
    /\ mpc = "fc2" /\ pf_status = "ok"
    /\ RegisterPyFuncGrad
    /\ mpc' = "fc3"
    /\ UNCHANGED <<draws, bsz, l1, l2, l3, opVars, wireVars, layerVars, dataVars>>

\* sess.run of the logits on one batch: the three py_func ops run in graph order;
\* a ValueError in one (a non-single lookup) stops the run there
RunModel ==
    /\ mpc = "fc3" /\ pf_status = "ok"
    /\ LET r1 == LayerRun(L1Units, draws, NFeat, BatchIdx([r \in 1..bsz |-> draws], 1), bsz)
           r2 == LayerRun(L2Units, Arange(L2InWidth), L2InWidth, r1.h_idx, bsz)
           r3 == LayerRun(L3Units, Arange(L2InWidth), L2InWidth, r2.h_idx, bsz)
       IN /\ l1' = r1
          /\ l2' = IF r1.status = "ok" THEN r2 ELSE NoOut
          /\ l3' = IF r1.status = "ok" /\ r2.status = "ok" THEN r3 ELSE NoOut
    /\ mpc' = "run"
    /\ UNCHANGED <<draws, bsz, opVars, wireVars, regVars, layerVars, dataVars>>

NextModel == Fc1 \/ Fc2 \/ Fc3 \/ RunModel

SpecModel == InitModel /\ [][NextModel]_vars

HasDupDraw == \E i, j \in 1..NDraws : i # j /\ draws[i] = draws[j]

\* the pattern layer2 and layer3 expect: row b lists columns 0..9 in order
NextLayerInput == BatchIdx([r \in 1..bsz |-> Arange(L2InWidth)], 1)

\* C10: a 10-unit layer's output indices are exactly the arange(10) pattern of the
\* next layer, so every lookup of fc2 and fc3 (forward and backward) matches
\* exactly one entry; in layer1 a repeated random column makes a lookup match
\* more than one entry.
C10_BatchAlignment ==
    /\ (l1 # NoOut /\ l1.status = "ok") => l1.h_idx = NextLayerInput
    /\ l2 # NoOut =>
         /\ l2.status = "ok" /\ l2.maxcount = 1 /\ l2.mincount = 1 /\ l2.gradok
         /\ l2.h_idx = NextLayerInput
    /\ l3 # NoOut =>
         /\ l3.status = "ok" /\ l3.maxcount = 1 /\ l3.mincount = 1 /\ l3.gradok
    /\ l1 # NoOut => (l1.maxcount > 1 <=> HasDupDraw)

C10_Witness == l3 # NoOut /\ bsz = 2

====
